---- MODULE Spec2Model ----
(***************************************************************************)
(* A model of dronebl.py, a single-file command line client of the DroneBL *)
(* RPC2 service: one invocation of the script, from the command line to    *)
(* the exit status.  The script is sequential; the model follows its       *)
(* control flow step by step (pc), with the configuration file, the        *)
(* command line and the server's answer as the environment.                *)
(*                                                                         *)
(* Python values that may be None or of several types are tagged records   *)
(* (None, PyInt, PyStr, IPv4Address, IPv4Network); XML attribute values    *)
(* and printed lines are plain strings.                                    *)
(***************************************************************************)
EXTENDS Integers, Sequences, FiniteSets, TLC

VARIABLES
    file,      \* the configuration file args.conffile names
    argv,      \* the command line (sys.argv), as given
    server,    \* what the HTTPS exchange with dronebl.org will produce
    pc,        \* position of the script
    args,      \* the argparse namespace (global args)
    config,    \* the global config dictionary
    calls,     \* the type conversions parse_args made, in order
    req,       \* the request element under construction
    sent,      \* the request bodies handed to conn.request, in order
    xmlobj,    \* send_rpcrequest's local xmlobj (Unbound until assigned)
    res,       \* the value send_rpcrequest returned (Unbound until it returns)
    out,       \* the lines printed, in order
    exc,       \* the exception that ended the process uncaught ("" if none)
    exit       \* the exit status of the process ("none" while it runs)

vars == <<file, argv, server, pc, args, config, calls, req, sent, xmlobj, res, out, exc, exit>>

(***************************************************************************)
(* Bounds of the model                                                     *)
(***************************************************************************)
MaxItems == 2       \* positional values on a command line
MaxChildren == 3    \* child elements of a response document

(***************************************************************************)
(* Python values                                                           *)
(***************************************************************************)
None == [t |-> "NoneType"]
PyInt(n) == [t |-> "int", v |-> n]
PyStr(s) == [t |-> "str", v |-> s]
IPv4Address(a) == [t |-> "IPv4Address", a |-> a]
IPv4Network(a, p) == [t |-> "IPv4Network", a |-> a, p |-> p]

Unbound == [t |-> "unbound"]

RECURSIVE Pow2(_)
Pow2(n) == IF n = 0 THEN 1 ELSE 2 * Pow2(n - 1)

\* The dotted quad of a 32-bit address (str of an IPv4Address).
Dotted(a) ==
    ToString(a \div Pow2(24)) \o "." \o ToString((a \div Pow2(16)) % 256) \o "."
        \o ToString((a \div 256) % 256) \o "." \o ToString(a % 256)

\* Python's str() on the values the script converts.
str(x) ==
    CASE x.t = "NoneType" -> "None"
      [] x.t = "int" -> ToString(x.v)
      [] x.t = "str" -> x.v
      [] x.t = "IPv4Address" -> Dotted(x.a)
      [] x.t = "IPv4Network" -> Dotted(x.a) \o "/" \o ToString(x.p)

(***************************************************************************)
(* Text                                                                    *)
(***************************************************************************)
Char(s, i) == SubSeq(s, i, i)

IsDigit(c) == \E i \in 1..10 : Char("0123456789", i) = c

DigitVal(c) == (CHOOSE i \in 1..10 : Char("0123456789", i) = c) - 1

AllDigits(s) == Len(s) > 0 /\ \A i \in 1..Len(s) : IsDigit(Char(s, i))

RECURSIVE NatOf(_)
NatOf(s) ==
    IF Len(s) = 0 THEN 0
    ELSE 10 * NatOf(SubSeq(s, 1, Len(s) - 1)) + DigitVal(Char(s, Len(s)))

\* The position of the first c in s, 0 if there is none.
Find(s, c) ==
    IF \E i \in 1..Len(s) : Char(s, i) = c
    THEN CHOOSE i \in 1..Len(s) : Char(s, i) = c /\ \A j \in 1..(i - 1) : Char(s, j) # c
    ELSE 0

RECURSIVE Split(_, _)
Split(s, c) ==
    LET i == Find(s, c)
    IN  IF i = 0 THEN <<s>>
        ELSE <<SubSeq(s, 1, i - 1)>> \o Split(SubSeq(s, i + 1, Len(s)), c)

RECURSIVE Join(_, _)
Join(parts, sep) ==
    IF Len(parts) = 0 THEN ""
    ELSE IF Len(parts) = 1 THEN parts[1]
    ELSE parts[1] \o sep \o Join(Tail(parts), sep)

RECURSIVE Repeat(_, _)
Repeat(c, n) == IF n <= 0 THEN "" ELSE c \o Repeat(c, n - 1)

ljust(s, w) == s \o Repeat(" ", w - Len(s))

(***************************************************************************)
(* Conversions: a result is [raised, val, msg]                             *)
(***************************************************************************)
Returns(v) == [raised |-> FALSE, val |-> v, msg |-> ""]
Raises(m) == [raised |-> TRUE, val |-> None, msg |-> m]

\* A value computed once and used under a name.
Let(v, In(_)) == In(v)

\* int(val) on a string: an optional sign and decimal digits.
int(val) ==
    IF AllDigits(val) THEN Returns(PyInt(NatOf(val)))
    ELSE IF Len(val) > 1 /\ Char(val, 1) = "-" /\ AllDigits(SubSeq(val, 2, Len(val)))
    THEN Returns(PyInt(0 - NatOf(SubSeq(val, 2, Len(val)))))
    ELSE Raises("invalid literal for int() with base 10")

checkint(val) == Let(int(val), LAMBDA r : IF r.raised THEN None ELSE r.val)

\* The 32-bit number of four octets.
Packed(octs) ==
    ((NatOf(octs[1]) * 256 + NatOf(octs[2])) * 256 + NatOf(octs[3])) * 256 + NatOf(octs[4])

\* The address a with the host bits of a /p network cleared (a is below 2^31).
NetworkAddress(a, p) == IF p <= 1 THEN 0 ELSE a - (a % Pow2(32 - p))

\* ipaddress.ip_network(val, False) on IPv4 text "a.b.c.d" or "a.b.c.d/p": the
\* network with its host bits cleared, or a ValueError.  First octets stay
\* below 128 (TLC's integers are 32-bit signed).
ip_network(val) ==
    Let(Split(val, "/"), LAMBDA parts :
    Let(Split(parts[1], "."), LAMBDA octs :
        IF /\ Len(octs) = 4
           /\ \A i \in 1..4 : AllDigits(octs[i]) /\ Len(octs[i]) <= 3 /\ NatOf(octs[i]) <= 255
           /\ NatOf(octs[1]) < 128
           /\ \/ Len(parts) = 1
              \/ /\ Len(parts) = 2 /\ AllDigits(parts[2]) /\ Len(parts[2]) <= 2
                 /\ NatOf(parts[2]) <= 32
        THEN Let(IF Len(parts) = 1 THEN 32 ELSE NatOf(parts[2]), LAMBDA p :
                 Returns(IPv4Network(NetworkAddress(Packed(octs), p), p)))
        ELSE Raises("does not appear to be an IPv4 or IPv6 network")))

ipaddr(val) ==
    Let(ip_network(val), LAMBDA ipn :
        IF ipn.raised THEN Returns(None)
        ELSE IF ipn.val.p = 32 THEN Returns(IPv4Address(ipn.val.a))
        ELSE Returns(ipn.val))

\* The numbers the range validators compare with and print.
PortLimit == 65535
PortMsgLimit == 65536
TypeLimit == 255
TypeMsgLimit == 256
QueryLimit == 255
QueryMsgLimit == 1001

portnumber(val) ==
    Let(int(val), LAMBDA port :
        IF port.raised THEN port
        ELSE IF port.val.v < 1 THEN Raises("value must be greater than 0")
        ELSE IF port.val.v > PortLimit
        THEN Raises("value must be less than " \o ToString(PortMsgLimit))
        ELSE port)

listingtype(val) ==
    Let(int(val), LAMBDA type :
        IF type.raised THEN type
        ELSE IF type.val.v < 1 THEN Raises("value must be greater than 0")
        ELSE IF type.val.v > TypeLimit
        THEN Raises("value must be less than " \o ToString(TypeMsgLimit))
        ELSE type)

querylimit(val) ==
    Let(int(val), LAMBDA lim :
        IF lim.raised THEN lim
        ELSE IF lim.val.v < 1 THEN Raises("value must be greater than 0")
        ELSE IF lim.val.v > QueryLimit
        THEN Raises("value must be less than " \o ToString(QueryMsgLimit))
        ELSE lim)

positiveint(val) ==
    Let(int(val), LAMBDA i :
        IF i.raised THEN i
        ELSE IF i.val.v < 1 THEN Raises("value must be greater than 0")
        ELSE i)

idorip(val) ==
    Let(checkint(val), LAMBDA i :
        IF i = None
        THEN Let(ipaddr(val), LAMBDA a :
                 IF a.val = None
                 THEN Raises("value must be either an integer, an IP address or a CIDR address")
                 ELSE a)
        ELSE Returns(i))

\* type=int with choices=range(0, 3)
listedchoice(val) ==
    Let(int(val), LAMBDA r :
        IF r.raised THEN r
        ELSE IF r.val.v \notin 0..2 THEN Raises("invalid choice") ELSE r)

\* choices=['yes', 'no']
yesno(val) == IF val \in {"yes", "no"} THEN Returns(PyStr(val)) ELSE Raises("invalid choice")

\* a plain string argument (no type=)
plain(val) == Returns(PyStr(val))

\* a store_true flag
flag(val) == Returns([t |-> "bool", v |-> TRUE])
(***************************************************************************)
(* parse_args: the command line is the global options, the command and the *)
(* command's words in the order given, each word [dest, raw].              *)
(***************************************************************************)
Bool(b) == [t |-> "bool", v |-> b]

Positional(command) ==
    CASE command = "query" -> "idorip"
      [] command = "add" -> "ip"
      [] command \in {"remove", "update"} -> "id"
      [] OTHER -> ""

\* The options each subparser declares.
Options(command) ==
    CASE command = "query" -> {"own", "listed", "type", "start", "stop", "limit"}
      [] command = "add" -> {"type", "port", "comment"}
      [] command = "update" -> {"comment"}
      [] command = "config" -> {"rpckey", "staging", "debug"}
      [] OTHER -> {}

Required(command) ==
    CASE command = "add" -> {"type"}
      [] command = "update" -> {"comment"}
      [] OTHER -> {}

\* The type= (and choices=) of an argument, applied to its raw string.
Convert(command, dest, raw) ==
    CASE dest = "idorip" -> idorip(raw)
      [] dest = "ip" -> ipaddr(raw)
      [] dest = "id" -> positiveint(raw)
      [] dest = "own" -> flag(raw)
      [] dest = "listed" -> listedchoice(raw)
      [] dest = "type" -> listingtype(raw)
      [] dest \in {"start", "stop"} -> int(raw)
      [] dest = "limit" -> querylimit(raw)
      [] dest = "port" -> portnumber(raw)
      [] dest = "comment" -> plain(raw)
      [] dest = "rpckey" -> plain(raw)
      [] dest \in {"staging", "debug"} -> yesno(raw)

\* The subparser's namespace before any word is read: every option's default.
SubDefaults(command) ==
    [d \in Options(command) \cup (IF Positional(command) = "" THEN {} ELSE {Positional(command)})
        |-> IF d = Positional(command) THEN <<>>
            ELSE IF d = "own" THEN Bool(FALSE)
            ELSE None]

\* Reads the words left to right; stops at the first conversion that raises.
RECURSIVE ParseWords(_, _, _, _)
ParseWords(command, words, ns, cs) ==
    IF Len(words) = 0 THEN [ns |-> ns, calls |-> cs, error |-> FALSE]
    ELSE Let(Head(words), LAMBDA w :
         Let(Convert(command, w.dest, w.raw), LAMBDA r :
         Let(Append(cs, [dest |-> w.dest, raw |-> w.raw, raised |-> r.raised,
                         val |-> r.val, msg |-> r.msg]), LAMBDA cs2 :
             IF r.raised
             THEN [ns |-> ns, calls |-> cs2, error |-> TRUE]
             ELSE ParseWords(command, Tail(words),
                      [ns EXCEPT ![w.dest] =
                          IF w.dest = Positional(command) THEN Append(@, r.val) ELSE r.val],
                      cs2))))

\* parser.parse_args(): the namespace, or an error (exit status 2).
parse_args(av) ==
    Let(ParseWords(av.command, av.words, SubDefaults(av.command), <<>>), LAMBDA sub :
        [error |-> \/ sub.error
                   \/ \E d \in Required(av.command) : sub.ns[d] = None
                   \/ Positional(av.command) # "" /\ sub.ns[Positional(av.command)] = <<>>,
         calls |-> sub.calls,
         \* the subparser's namespace is copied over the parser's
         ns |-> sub.ns @@ [command |-> PyStr(av.command), rpckey |-> av.rpckey,
                           staging |-> Bool(av.staging)]])
(***************************************************************************)
(* Dictionaries in insertion order (dict, Element.attrib): sequences of    *)
(* [k, v].  Elements: [tag, attrib, text, children].                       *)
(***************************************************************************)
Has(d, k) == \E i \in 1..Len(d) : d[i].k = k

Get(d, k) == d[CHOOSE i \in 1..Len(d) : d[i].k = k].v

Put(d, k, v) ==
    IF Has(d, k) THEN [i \in 1..Len(d) |-> IF d[i].k = k THEN [k |-> k, v |-> v] ELSE d[i]]
    ELSE Append(d, [k |-> k, v |-> v])

Element(tag, attrib) == [tag |-> tag, attrib |-> attrib, text |-> None, children |-> <<>>]

NoElement == Element("", <<>>)

(***************************************************************************)
(* load_config                                                             *)
(***************************************************************************)
DefaultConfig == [rpckey |-> None, staging |-> FALSE, debug |-> FALSE]

\* The file is absent, unparsable, or a JSON object (a function of its keys).
load_config(f, cfg) ==
    IF f.kind # "json" THEN cfg
    ELSE [key \in DOMAIN cfg |-> IF key \in DOMAIN f.obj THEN f.obj[key] ELSE cfg[key]]

\* json.dump(config, fc) into the file opened 'w'
dump_config(cfg) == [kind |-> "json", obj |-> cfg]

(***************************************************************************)
(* The request                                                             *)
(***************************************************************************)
get_rpcrequest(cfg) ==
    LET root == Element("request", <<[k |-> "key", v |-> cfg.rpckey.v]>>)
        s == IF cfg.staging THEN [root EXCEPT !.attrib = Put(@, "staging", "1")] ELSE root
    IN  IF cfg.debug THEN [s EXCEPT !.attrib = Put(@, "debug", "1")] ELSE s

\* The method element put before the ones already there.
req_addmethod_first(r, method, kwargs) ==
    [r EXCEPT !.children = <<Element(method, kwargs)>> \o @]

req_addmethod(r, method, kwargs) ==
    [r EXCEPT !.children = Append(@, Element(method, kwargs))]

RECURSIVE AttribText(_)
AttribText(d) ==
    IF Len(d) = 0 THEN ""
    ELSE " " \o Head(d).k \o "=\"" \o Head(d).v \o "\"" \o AttribText(Tail(d))

RECURSIVE ChildrenText(_)
ChildrenText(els) ==
    IF Len(els) = 0 THEN ""
    ELSE "<" \o Head(els).tag \o AttribText(Head(els).attrib) \o " />"
             \o ChildrenText(Tail(els))

\* ElementTree.write(encoding='UTF-8', xml_declaration=True) of the request
\* (the values of the model hold no character that needs escaping).
get_rawxml(root) ==
    "<?xml version='1.0' encoding='UTF-8'?>\n<" \o root.tag \o AttribText(root.attrib)
        \o (IF Len(root.children) = 0 THEN " />"
            ELSE ">" \o ChildrenText(root.children) \o "</" \o root.tag \o ">")

\* kwargs of do_query / do_add / do_update: the options given, in the code's order.
RECURSIVE Kwargs(_, _)
Kwargs(ns, names) ==
    IF Len(names) = 0 THEN <<>>
    ELSE LET n == Head(names)
             given == IF n = "own" THEN ns[n].v ELSE ns[n] # None
             value == IF n = "own" THEN "1" ELSE str(ns[n])
         IN  (IF given THEN <<[k |-> n, v |-> value]>> ELSE <<>>) \o Kwargs(ns, Tail(names))

RECURSIVE AddLookups(_, _, _)
AddLookups(r, items, kwargs) ==
    IF Len(items) = 0 THEN r
    ELSE AddLookups(
             req_addmethod(r, "lookup",
                 <<[k |-> IF Head(items).t = "int" THEN "id" ELSE "ip",
                    v |-> str(Head(items))]>> \o kwargs),
             Tail(items), kwargs)

RECURSIVE AddMethods(_, _, _, _, _)
AddMethods(r, method, key, items, kwargs) ==
    IF Len(items) = 0 THEN r
    ELSE AddMethods(
             req_addmethod(r, method, <<[k |-> key, v |-> str(Head(items))]>> \o kwargs),
             method, key, Tail(items), kwargs)
(***************************************************************************)
(* send_rpcrequest: the checks of the response and the channels            *)
(***************************************************************************)
\* Element.find('./tag'): the first child with that tag, or None.
find(el, tag) ==
    IF \E i \in 1..Len(el.children) : el.children[i].tag = tag
    THEN el.children[CHOOSE i \in 1..Len(el.children) :
                        /\ el.children[i].tag = tag
                        /\ \A j \in 1..(i - 1) : el.children[j].tag # tag]
    ELSE None

\* What printing and exiting a piece of code did: the lines, the exception that
\* escaped ("" if none) and the status sys.exit was given ("none" if it was not).
Did(lines, ex, status) == [out |-> lines, exc |-> ex, exit |-> status]

\* Lines 211-220: the response of type 'error'.
ErrorResponse(xml) ==
    LET code == find(xml, "code")
        message == find(xml, "message")
        data == find(xml, "data")
        head == <<"Error received from RPC server:", "">>
    IN  IF code = None \/ message = None \/ data = None
        THEN Did(<<>>, "AttributeError", "1")
        ELSE IF code.text = None THEN Did(head, "TypeError", "1")
        ELSE IF message.text = None
        THEN Did(head \o <<"Code:    " \o code.text.v>>, "TypeError", "1")
        ELSE IF data.text = None
        THEN Did(head \o <<"Code:    " \o code.text.v, "Message: " \o message.text.v>>,
                 "TypeError", "1")
        ELSE Did(head \o <<"Code:    " \o code.text.v, "Message: " \o message.text.v,
                           "Data:    " \o data.text.v>>, "", "-1")

\* Lines 202-220: the checks between the exchange and the channels.
CheckResponse(xml) ==
    IF xml = Unbound THEN Did(<<>>, "UnboundLocalError", "1")
    ELSE IF xml.tag # "response"
    THEN Did(<<"Error: invalid XML response received...">>, "", "-1")
    ELSE IF ~Has(xml.attrib, "type")
    THEN Did(<<"Error: missing response type attribute...">>, "", "-1")
    ELSE IF Get(xml.attrib, "type") \notin {"success", "error"}
    THEN Did(<<"Error: Unknown response type received: " \o Get(xml.attrib, "type")>>,
             "", "-1")
    ELSE IF Get(xml.attrib, "type") = "error" THEN ErrorResponse(xml)
    ELSE Did(<<>>, "", "none")

\* Each child replacing the list of its tag.
RECURSIVE ChannelsLastOnly(_, _)
ChannelsLastOnly(children, ret) ==
    IF Len(children) = 0 THEN ret
    ELSE ChannelsLastOnly(Tail(children),
             Put(ret, Head(children).tag, <<Head(children).attrib>>))

\* Lines 227-230: one list per tag, in the order the tags first appear.
RECURSIVE Channels(_, _)
Channels(children, ret) ==
    IF Len(children) = 0 THEN ret
    ELSE LET el == Head(children)
             r == IF ~Has(ret, el.tag) THEN Put(ret, el.tag, <<>>) ELSE ret
         IN  Channels(Tail(children), Put(r, el.tag, Append(Get(r, el.tag), el.attrib)))

(***************************************************************************)
(* The presenters                                                          *)
(***************************************************************************)
RECURSIVE Params(_)
Params(dbg) ==
    IF Len(dbg) = 0 THEN <<>>
    ELSE (IF Head(dbg).k = "data" THEN <<>> ELSE <<Head(dbg).k \o "=" \o Head(dbg).v>>)
             \o Params(Tail(dbg))

\* The loop of show_success, show_warnings and show_debuginfo.
RECURSIVE ShowEntries(_, _, _)
ShowEntries(prefix, entries, lines) ==
    IF Len(entries) = 0 THEN Did(lines, "", "none")
    ELSE LET dbg == Head(entries)
             info == Join(Params(dbg), ", ")
         IN  IF ~Has(dbg, "data") THEN Did(lines, "KeyError", "1")
             ELSE ShowEntries(prefix, Tail(entries),
                      Append(lines, prefix \o Get(dbg, "data")
                                 \o (IF Len(info) > 0 THEN " (" \o info \o ")" ELSE "")))

show_success(r, lines) ==
    IF ~Has(r, "success") THEN Did(lines, "", "none")
    ELSE ShowEntries("Success: ", Get(r, "success"), lines)

show_warnings(r, lines) ==
    IF ~Has(r, "warning") THEN Did(lines, "", "none")
    ELSE ShowEntries("WARNING: ", Get(r, "warning"), lines)

show_debuginfo(cfg, r, lines) ==
    IF ~cfg.debug THEN Did(lines, "", "none")
    ELSE IF ~Has(r, "debug") THEN Did(lines, "", "none")
    ELSE ShowEntries("Debug: ", Get(r, "debug"), lines)

\* str(endts - startts): the clock is not modelled.
Delay == "0:00:00.000100"

\* show_success, show_warnings, show_debuginfo and the 'Completed in' line
\* (do_add, do_remove and do_update end alike).
ShowCompleted(cfg, r, lines) ==
    LET a == show_success(r, lines)
        b == show_warnings(r, a.out)
        c == show_debuginfo(cfg, r, b.out)
    IN  IF a.exc # "" THEN a
        ELSE IF b.exc # "" THEN b
        ELSE IF c.exc # "" THEN c
        ELSE Did(Append(c.out, "Completed in " \o Delay), "", "none")
RECURSIVE MaxDescLen(_, _)
MaxDescLen(rows, desclen) ==
    IF Len(rows) = 0 THEN desclen
    ELSE MaxDescLen(Tail(rows),
             IF Len(Get(Head(rows), "description")) > desclen
             THEN Len(Get(Head(rows), "description")) ELSE desclen)

RECURSIVE TypeRows(_, _)
TypeRows(rows, lines) ==
    IF Len(rows) = 0 THEN Did(lines, "", "none")
    ELSE IF ~Has(Head(rows), "type") THEN Did(lines, "KeyError", "1")
    ELSE TypeRows(Tail(rows),
             Append(lines, ljust(Get(Head(rows), "type"), 6) \o Get(Head(rows), "description")))

\* do_types after send_rpcrequest (lines 345-360)
ShowTypes(r, lines) ==
    IF ~Has(r, "typelist") THEN Did(Append(lines, "Error: missing typelist"), "", "none")
    ELSE LET rows == Get(r, "typelist")
             desclen == MaxDescLen(rows, 0) + 1
             table == TypeRows(rows,
                          lines \o <<"Type  Description",
                                     "===== " \o Repeat("=", desclen + 6 - Len("===== "))>>)
         IN  IF \E i \in 1..Len(rows) : ~Has(rows[i], "description")
             THEN Did(lines, "KeyError", "1")
             ELSE IF table.exc # "" THEN table
             ELSE show_warnings(r, table.out)

\* The columns of do_query: key, heading, least width (line 391).
Cols ==
    << [k |-> "timestamp", name |-> "Time", w |-> 5], [k |-> "id", name |-> "ID", w |-> 3],
       [k |-> "ip", name |-> "IP", w |-> 3], [k |-> "type", name |-> "Type", w |-> 5],
       [k |-> "listed", name |-> "Listed", w |-> 7],
       [k |-> "comment", name |-> "Comment", w |-> 8] >>

TwoDigits(n) == IF n < 10 THEN "0" \o ToString(n) ELSE ToString(n)

\* datetime.fromtimestamp(n).isoformat(), for a time of the first day of the
\* epoch and a local time zone equal to UTC.
isoformat(n) ==
    "1970-01-01T" \o TwoDigits(n \div 3600) \o ":" \o TwoDigits((n \div 60) % 60) \o ":"
        \o TwoDigits(n % 60)

\* Lines 396-398: a row with its timestamp converted.
WithTimestamp(r) ==
    IF Has(r, "timestamp")
    THEN Put(r, "timestamp", isoformat(int(Get(r, "timestamp")).val.v))
    ELSE r

\* Lines 399-403: the columns widened by one row.
Widen(cols, r) ==
    [i \in 1..Len(cols) |->
        IF Has(r, cols[i].k) /\ Len(Get(r, cols[i].k)) > cols[i].w
        THEN [cols[i] EXCEPT !.w = Len(Get(r, cols[i].k)) + 1]
        ELSE cols[i]]

\* Lines 395-404: [results, cols], or the ValueError of int().
RECURSIVE Measure(_, _, _)
Measure(rows, results, cols) ==
    IF Len(rows) = 0 THEN [results |-> results, cols |-> cols, exc |-> ""]
    ELSE IF Has(Head(rows), "timestamp") /\ int(Get(Head(rows), "timestamp")).raised
    THEN [results |-> results, cols |-> cols, exc |-> "ValueError"]
    ELSE Measure(Tail(rows), Append(results, WithTimestamp(Head(rows))),
                 Widen(cols, WithTimestamp(Head(rows))))

RECURSIVE HeadText(_, _)
HeadText(cols, rule) ==
    IF Len(cols) = 0 THEN ""
    ELSE (IF rule THEN Repeat("=", Head(cols).w) ELSE ljust(Head(cols).name, Head(cols).w))
             \o (IF Len(cols) > 1 THEN " " ELSE "") \o HeadText(Tail(cols), rule)

\* Lines 419-423: the line of one row; r[k] of a column the row lacks raises.
RECURSIVE RowLine(_, _, _)
RowLine(cols, r, line) ==
    IF Len(cols) = 0 THEN [line |-> line, exc |-> ""]
    ELSE IF ~Has(r, Head(cols).k) THEN [line |-> line, exc |-> "KeyError"]
    ELSE RowLine(Tail(cols), r,
             (IF Len(line) > 0 THEN line \o " " ELSE line)
                 \o ljust(Get(r, Head(cols).k), Head(cols).w))

RECURSIVE ResultRows(_, _, _)
ResultRows(cols, results, lines) ==
    IF Len(results) = 0 THEN Did(lines, "", "none")
    ELSE LET l == RowLine(cols, Head(results), "")
         IN  IF l.exc # "" THEN Did(lines, l.exc, "1")
             ELSE ResultRows(cols, Tail(results), Append(lines, l.line))

\* do_query after send_rpcrequest (lines 391-432)
ShowResults(cfg, r, lines) ==
    LET m == IF Has(r, "result") THEN Measure(Get(r, "result"), <<>>, Cols)
             ELSE [results |-> <<>>, cols |-> Cols, exc |-> ""]
        table == IF Has(r, "result")
                 THEN ResultRows(m.cols, m.results,
                          lines \o <<HeadText(m.cols, FALSE), HeadText(m.cols, TRUE)>>)
                 ELSE Did(lines, "", "none")
        \* the rows of res['result'] are the dictionaries the loop changed
        r2 == IF Has(r, "result") THEN Put(r, "result", m.results) ELSE r
        w == show_warnings(r2, table.out)
        d == show_debuginfo(cfg, r2, w.out)
    IN  IF m.exc # "" THEN Did(lines, m.exc, "1")
        ELSE IF table.exc # "" THEN table
        ELSE IF w.exc # "" THEN w
        ELSE IF d.exc # "" THEN d
        ELSE Did(Append(d.out, ToString(Len(m.results)) \o " results found in " \o Delay),
                 "", "none")
(***************************************************************************)
(* The environment of one invocation: the file, the command line and the   *)
(* server's answer.                                                        *)
(***************************************************************************)
Absent == [kind |-> "absent", obj |-> <<>>]
Unparsable == [kind |-> "unparsable", obj |-> <<>>]

\* Every JSON object over the three recognised keys, each present or not.
FileObjects ==
    { k @@ s @@ d :
        k \in {<<>>} \cup {("rpckey" :> v) : v \in {None, PyStr("K1")}},
        s \in {<<>>} \cup {("staging" :> b) : b \in BOOLEAN},
        d \in {<<>>} \cup {("debug" :> b) : b \in BOOLEAN} }

Files == {Absent, Unparsable} \cup {[kind |-> "json", obj |-> o] : o \in FileObjects}

DebugFile == [kind |-> "json",
              obj |-> [rpckey |-> PyStr("K1"), staging |-> TRUE, debug |-> TRUE]]

Word(dest, raw) == [dest |-> dest, raw |-> raw]

\* One optional word: absent, or one of the raw values.
Opt(dest, raws) == {<<>>} \cup {<<Word(dest, raw)>> : raw \in raws}

CommandLine(rpckey, staging, command, words) ==
    [rpckey |-> rpckey, staging |-> staging, command |-> command, words |-> words]

RawTargets == {"7", "0", "10.0.0.5", "10.0.0.77/24", "bogus"}

\* The positional values: 1..MaxItems raw strings under dest.
Items(dest) ==
    UNION { { [i \in 1..n |-> Word(dest, raws[i])] : raws \in [1..n -> RawTargets] } :
            n \in 1..MaxItems }

QueryOptions ==
    { own \o limit \o rest :
        own \in Opt("own", {""}),
        limit \in Opt("limit", {"5", "256"}),
        rest \in { <<>>, <<Word("listed", "1"), Word("type", "3")>>,
                   <<Word("start", "10"), Word("stop", "20")>>,
                   <<Word("listed", "0"), Word("type", "255"), Word("start", "10"),
                     Word("stop", "20")>> } }

AddOptions ==
    { type \o port \o comment :
        type \in Opt("type", {"3", "0", "256"}),
        port \in Opt("port", {"80", "65536"}),
        comment \in Opt("comment", {"spam"}) }

ConfigOptions ==
    { k \o s \o d :
        k \in Opt("rpckey", {"K3"}),
        s \in Opt("staging", {"yes", "no"}),
        d \in Opt("debug", {"yes", "no"}) }

\* The subcommands with their words, the options before the positional values.
SubCommands ==
    {[command |-> "query", words |-> o \o i] : o \in QueryOptions, i \in Items("idorip")}
    \cup {[command |-> "add", words |-> o \o i] : o \in AddOptions, i \in Items("ip")}
    \cup {[command |-> "remove", words |-> i] : i \in Items("id")}
    \cup {[command |-> "update", words |-> o \o i] :
             o \in Opt("comment", {"fixed"}), i \in Items("id")}

\* One well-formed invocation of each command that sends a request.
PlainCommands ==
    { [command |-> "types", words |-> <<>>],
      [command |-> "query", words |-> <<Word("idorip", "7")>>],
      [command |-> "add", words |-> <<Word("type", "3"), Word("ip", "10.0.0.5")>>],
      [command |-> "remove", words |-> <<Word("id", "7")>>],
      [command |-> "update", words |-> <<Word("comment", "fixed"), Word("id", "7")>>] }

LocalCommands ==
    {[command |-> "help", words |-> <<>>]}
    \cup {[command |-> "config", words |-> o] : o \in ConfigOptions}

\* Response documents.
Attrib(names, value) == [i \in 1..Len(names) |-> [k |-> names[i], v |-> value[names[i]]]]

TextElement(tag, text) == [Element(tag, <<>>) EXCEPT !.text = text]

ColumnValue ==
    [timestamp |-> "75", id |-> "1234", ip |-> "10.0.0.5", type |-> "3", listed |-> "1",
     comment |-> "open proxy"]

ColumnNames == <<"timestamp", "id", "ip", "type", "listed", "comment">>

\* Result rows: one with all six columns, one with four of them.
ResultElements ==
    { Element("result", Attrib(ColumnNames, ColumnValue)),
      Element("result", Attrib(<<"id", "ip", "type", "listed">>, ColumnValue)) }

Notices ==
    { Element("warning", <<[k |-> "data", v |-> "rate limited"], [k |-> "ip", v |-> "10.0.0.5"]>>),
      Element("debug", <<[k |-> "data", v |-> "cache miss"]>>),
      Element("success", <<[k |-> "id", v |-> "7"], [k |-> "data", v |-> "done"]>>),
      Element("typelist", <<[k |-> "type", v |-> "3"], [k |-> "description", v |-> "IRC drone"]>>) }

ChildSeqs ==
    UNION { [1..n -> ResultElements \cup Notices] : n \in 0..MaxChildren }

Response(tag, attrib, children) == [Element(tag, attrib) EXCEPT !.children = children]

TypeAttr(v) == <<[k |-> "type", v |-> v]>>

\* The three fields of an error response, each absent, empty or with text.
ErrorChildren ==
    { c \o m \o d :
        c \in {<<>>, <<TextElement("code", None)>>, <<TextElement("code", PyStr("100"))>>},
        m \in {<<>>, <<TextElement("message", None)>>,
               <<TextElement("message", PyStr("Bad key"))>>},
        d \in {<<>>, <<TextElement("data", None)>>, <<TextElement("data", PyStr("detail"))>>} }

Documents ==
    {Response("response", TypeAttr("success"), ch) : ch \in ChildSeqs}
    \cup {Response("response", TypeAttr("error"), ch) : ch \in ErrorChildren}
    \cup { Response("html", TypeAttr("success"), <<>>), Response("response", <<>>, <<>>),
           Response("response", TypeAttr("fatal"), <<>>),
           Response("Response", TypeAttr("success"), <<Element("result", <<>>)>>) }

Answers(doc) == [fail |-> "", doc |-> doc]

Servers ==
    {Answers(d) : d \in Documents}
    \cup {[fail |-> "connection refused", doc |-> NoElement],
          [fail |-> "syntax error: line 1, column 0", doc |-> NoElement]}

Empty == Answers(Response("response", TypeAttr("success"), <<>>))

Environment(f, av, sv) == [file |-> f, argv |-> av, server |-> sv]

\* Every file and global option with the local commands and one request of
\* each kind; every command line with two files; every answer with one request
\* of each kind and two files.
Environments ==
    { Environment(f, CommandLine(k, s, c.command, c.words), Empty) :
        f \in Files, k \in {None, PyStr("K2")}, s \in BOOLEAN,
        c \in LocalCommands \cup PlainCommands }
    \cup { Environment(f, CommandLine(PyStr("K2"), FALSE, c.command, c.words), Empty) :
             f \in {Absent, DebugFile}, c \in SubCommands }
    \cup { Environment(f, CommandLine(PyStr("K2"), FALSE, c.command, c.words), sv) :
             f \in {Absent, DebugFile}, c \in PlainCommands, sv \in Servers }

Init ==
    /\ \E e \in Environments : file = e.file /\ argv = e.argv /\ server = e.server
    /\ pc = "parse_args"
    /\ args = <<>>
    /\ config = DefaultConfig
    /\ calls = <<>>
    /\ req = NoElement
    /\ sent = <<>>
    /\ xmlobj = Unbound
    /\ res = Unbound
    /\ out = <<>>
    /\ exc = ""
    /\ exit = "none"
(***************************************************************************)
(* The script, step by step                                                *)
(***************************************************************************)
\* Line 522: parse_args(); argparse reports a bad value and exits with 2.
ParseArgs ==
    /\ pc = "parse_args"
    /\ \E r \in {parse_args(argv)} :
           /\ calls' = r.calls
           /\ IF r.error
              THEN /\ out' = Append(out, "dronebl.py: error: invalid arguments")
                   /\ exit' = "2"
                   /\ pc' = "done"
                   /\ args' = args
              ELSE /\ args' = r.ns
                   /\ pc' = "load_config"
                   /\ UNCHANGED <<out, exit>>
    /\ UNCHANGED <<file, argv, server, config, req, sent, xmlobj, res, exc>>

\* Line 523
LoadConfig ==
    /\ pc = "load_config"
    /\ config' = load_config(file, config)
    /\ pc' = "main"
    /\ UNCHANGED <<file, argv, server, args, calls, req, sent, xmlobj, res, out, exc, exit>>

\* The file's key going before the command line's.
EffectiveKeyFileFirst(ns, cfg) == IF cfg.rpckey # None THEN cfg.rpckey ELSE ns.rpckey

\* Lines 525-526: the key of the command line goes before the file's.
EffectiveKey(ns, cfg) == IF ns.rpckey # None THEN ns.rpckey ELSE cfg.rpckey

\* Lines 525-530: the command line's key, and the error of a missing key.
Main ==
    /\ pc = "main"
    /\ config' = [config EXCEPT !.rpckey = EffectiveKey(args, config)]
    /\ IF args.command.v # "config" /\ config'.rpckey = None
       THEN /\ out' = Append(out,
                   "dronebl.py: error: the following arguments are required: -r/--rpckey")
            /\ exit' = "2"
            /\ pc' = "done"
       ELSE /\ pc' = "dispatch"
            /\ UNCHANGED <<out, exit>>
    /\ UNCHANGED <<file, argv, server, args, calls, req, sent, xmlobj, res, exc>>

DoHelp ==
    /\ pc = "dispatch"
    /\ args.command.v = "help"
    /\ out' = Append(out, "usage: dronebl.py")
    /\ exit' = "0"
    /\ pc' = "done"
    /\ UNCHANGED <<file, argv, server, args, config, calls, req, sent, xmlobj, res, exc>>

\* Lines 303-315: the settings as the script prints them.
ConfigLines(cfg) ==
    <<"Configuration:", "",
      IF cfg.rpckey # None THEN "RPC Key: " \o cfg.rpckey.v ELSE "RPC Key: not set",
      IF cfg.staging THEN "Staging: Yes" ELSE "Staging: No">>
        \o (IF cfg.debug THEN <<"Debug: Yes">> ELSE <<>>)

\* An absent flag switching its setting off.
ConfigUpdatedAbsentOff(cfg, ns) ==
    [staging |-> ns.staging = PyStr("yes"),
     debug |-> ns.debug = PyStr("yes"),
     rpckey |-> IF ns.rpckey # None THEN ns.rpckey ELSE cfg.rpckey]

\* Lines 317-328: the flags applied to the settings.
ConfigUpdated(cfg, ns) ==
    [staging |-> IF ns.staging = PyStr("yes") THEN TRUE
                 ELSE IF ns.staging = PyStr("no") THEN FALSE ELSE cfg.staging,
     debug |-> IF ns.debug = PyStr("yes") THEN TRUE
               ELSE IF ns.debug = PyStr("no") THEN FALSE ELSE cfg.debug,
     rpckey |-> IF ns.rpckey # None THEN ns.rpckey ELSE cfg.rpckey]

\* do_config; the file system decides whether open and json.dump succeed.
DoConfig ==
    /\ pc = "dispatch"
    /\ args.command.v = "config"
    /\ pc' = "done"
    /\ IF args.rpckey = None /\ args.staging = None /\ args.debug = None
       THEN /\ out' = out \o ConfigLines(config)
            /\ exit' = "0"
            /\ UNCHANGED <<file, config>>
       ELSE /\ config' = ConfigUpdated(config, args)
            /\ \E written \in {"yes", "open failed", "dump failed"} :
                  IF written = "yes"
                  THEN /\ file' = dump_config(config')
                       /\ out' = Append(out, "Configuration updated")
                       /\ exit' = "0"
                  ELSE /\ file' = IF written = "open failed" THEN file ELSE Unparsable
                       /\ out' = Append(out, "Unable to update configuration: " \o written)
                       /\ exit' = "1"
    /\ UNCHANGED <<argv, server, args, calls, req, sent, xmlobj, res, exc>>

\* do_types to its call of send_rpcrequest (lines 341-343)
DoTypes ==
    /\ pc = "dispatch"
    /\ args.command.v = "types"
    /\ req' = req_addmethod(get_rpcrequest(config), "typelist", <<>>)
    /\ pc' = "send_rpcrequest"
    /\ UNCHANGED <<file, argv, server, args, config, calls, sent, xmlobj, res, out, exc, exit>>

\* do_query to its call of send_rpcrequest (lines 365-389)
DoQuery ==
    /\ pc = "dispatch"
    /\ args.command.v = "query"
    /\ req' = AddLookups(get_rpcrequest(config), args.idorip,
                  Kwargs(args, <<"own", "limit", "listed", "type", "start", "stop">>))
    /\ pc' = "send_rpcrequest"
    /\ UNCHANGED <<file, argv, server, args, config, calls, sent, xmlobj, res, out, exc, exit>>

\* do_add to its call of send_rpcrequest (lines 437-452)
DoAdd ==
    /\ pc = "dispatch"
    /\ args.command.v = "add"
    /\ req' = AddMethods(get_rpcrequest(config), "add", "ip", args.ip,
                  Kwargs(args, <<"type", "port", "comment">>))
    /\ pc' = "send_rpcrequest"
    /\ UNCHANGED <<file, argv, server, args, config, calls, sent, xmlobj, res, out, exc, exit>>

\* do_remove to its call of send_rpcrequest (lines 467-474)
DoRemove ==
    /\ pc = "dispatch"
    /\ args.command.v = "remove"
    /\ req' = AddMethods(get_rpcrequest(config), "remove", "id", args.id, <<>>)
    /\ pc' = "send_rpcrequest"
    /\ UNCHANGED <<file, argv, server, args, config, calls, sent, xmlobj, res, out, exc, exit>>

\* do_update to its call of send_rpcrequest (lines 489-500)
DoUpdate ==
    /\ pc = "dispatch"
    /\ args.command.v = "update"
    /\ req' = AddMethods(get_rpcrequest(config), "update", "id", args.id,
                  Kwargs(args, <<"comment">>))
    /\ pc' = "send_rpcrequest"
    /\ UNCHANGED <<file, argv, server, args, config, calls, sent, xmlobj, res, out, exc, exit>>

\* send_rpcrequest, lines 190-200: the exchange and the parse, in one try; the
\* handler prints and the function goes on.
Exchange ==
    /\ pc = "send_rpcrequest"
    /\ sent' = Append(sent, get_rawxml(req))
    /\ IF server.fail # ""
       THEN /\ out' = Append(out, "Error retrieving RPC response: " \o server.fail)
            /\ UNCHANGED xmlobj
       ELSE /\ xmlobj' = server.doc
            /\ UNCHANGED out
    /\ pc' = "check_response"
    /\ UNCHANGED <<file, argv, server, args, config, calls, req, res, exc, exit>>

\* send_rpcrequest, lines 202-220
Check ==
    /\ pc = "check_response"
    /\ \E d \in {CheckResponse(xmlobj)} :
           /\ out' = out \o d.out
           /\ exc' = d.exc
           /\ exit' = d.exit
           /\ pc' = IF d.exit = "none" THEN "channels" ELSE "done"
    /\ UNCHANGED <<file, argv, server, args, config, calls, req, sent, xmlobj, res>>

\* send_rpcrequest, lines 222-232
Return ==
    /\ pc = "channels"
    /\ res' = [t |-> "dict", v |-> Channels(xmlobj.children, <<>>)]
    /\ pc' = "show"
    /\ UNCHANGED <<file, argv, server, args, config, calls, req, sent, xmlobj, out, exc, exit>>

\* The rest of do_types, do_query, do_add, do_remove or do_update, and the
\* end of the script.
Show ==
    /\ pc = "show"
    /\ \E d \in {CASE args.command.v = "types" -> ShowTypes(res.v, out)
                   [] args.command.v = "query" -> ShowResults(config, res.v, out)
                   [] OTHER -> ShowCompleted(config, res.v, out)} :
           /\ out' = d.out
           /\ exc' = d.exc
           /\ exit' = IF d.exc # "" THEN "1" ELSE "0"
    /\ pc' = "done"
    /\ UNCHANGED <<file, argv, server, args, config, calls, req, sent, xmlobj, res>>

Next ==
    \/ ParseArgs
    \/ LoadConfig
    \/ Main
    \/ DoHelp
    \/ DoConfig
    \/ DoTypes
    \/ DoQuery
    \/ DoAdd
    \/ DoRemove
    \/ DoUpdate
    \/ Exchange
    \/ Check
    \/ Return
    \/ Show

Spec == Init /\ [][Next]_vars
(***************************************************************************)
(* Properties                                                              *)
(***************************************************************************)
StartsWith(s, prefix) == Len(s) >= Len(prefix) /\ SubSeq(s, 1, Len(prefix)) = prefix

EndsWith(s, suffix) ==
    Len(s) >= Len(suffix) /\ SubSeq(s, Len(s) - Len(suffix) + 1, Len(s)) = suffix

Printed(prefix) == \E i \in 1..Len(out) : StartsWith(out[i], prefix)

Failed == pc = "done" /\ exit \notin {"none", "0"}

\* A line only a presenter prints: a table, a notice or a summary.
PresenterLine(l) ==
    \/ \E prefix \in {"Success: ", "WARNING: ", "Debug: ", "Completed in ", "Time ", "=====",
                      "Type  Description", "Error: missing typelist"} : StartsWith(l, prefix)
    \/ EndsWith(l, " results found in " \o Delay)

\* The response send_rpcrequest accepts.
Accepted(doc) ==
    doc.tag = "response" /\ Has(doc.attrib, "type") /\ Get(doc.attrib, "type") = "success"

\* The raw value of an option of the command line, if it was given.
Given(dest) == \E i \in 1..Len(argv.words) : argv.words[i].dest = dest

RawOf(dest) == argv.words[CHOOSE i \in 1..Len(argv.words) : argv.words[i].dest = dest].raw

\* The positional words of the command line, in order.
RawItems == SelectSeq(argv.words, LAMBDA w : w.dest = Positional(argv.command))

\* The key the configuration file holds, None if it holds none.
FileKey ==
    IF file.kind = "json" /\ "rpckey" \in DOMAIN file.obj THEN file.obj.rpckey ELSE None

\* C1 (first part): once a response document has been checked, channels have
\* been returned exactly if its root is 'response' with type 'success'; in
\* every other case the process has ended with a non-zero status, nothing was
\* returned and no presenter line was printed.
C1_OnlySuccessReturns ==
    (xmlobj # Unbound /\ pc \in {"show", "done"}) =>
        /\ res.t = "dict" <=> Accepted(xmlobj)
        /\ ~Accepted(xmlobj) =>
              Failed /\ \A i \in 1..Len(out) : ~PresenterLine(out[i])

\* C1: for every response document handled by send_rpcrequest, channels are
\* returned exactly for a 'response' root of type 'success', every other
\* document ends the process with a non-zero status and no presenter output,
\* and for type 'error' the code, the message and the data are all printed
\* before the process ends.
C1_ResponseClassified ==
    /\ C1_OnlySuccessReturns
    /\ ( /\ xmlobj # Unbound
         /\ pc = "done"
         /\ xmlobj.tag = "response"
         /\ Has(xmlobj.attrib, "type")
         /\ Get(xmlobj.attrib, "type") = "error" ) =>
           Printed("Code:    ") /\ Printed("Message: ") /\ Printed("Data:    ")

\* C2: when -s/--staging is given on the command line, every request sent
\* carries staging="1" on its root, whatever the configuration file says.
C2_StagingFlagHonoured ==
    (argv.staging /\ sent # <<>>) =>
        Has(req.attrib, "staging") /\ Get(req.attrib, "staging") = "1"

\* A word of the command line whose value is malformed for its argument.
Malformed(w) ==
    CASE w.dest = "idorip" -> int(w.raw).raised /\ ip_network(w.raw).raised
      [] w.dest = "ip" -> ip_network(w.raw).raised
      [] w.dest = "id" -> int(w.raw).raised \/ int(w.raw).val.v < 1
      [] w.dest = "type" ->
            int(w.raw).raised \/ int(w.raw).val.v \notin 1..TypeLimit
      [] w.dest = "port" ->
            int(w.raw).raised \/ int(w.raw).val.v \notin 1..PortLimit
      [] w.dest = "limit" ->
            int(w.raw).raised \/ int(w.raw).val.v \notin 1..QueryLimit
      [] OTHER -> FALSE

\* C3: if any value of the command line is malformed, no request is ever
\* built or sent, and the process ends with a non-zero status.
C3_MalformedValueStopsEarly ==
    (\E i \in 1..Len(argv.words) : Malformed(argv.words[i])) =>
        /\ req = NoElement
        /\ sent = <<>>
        /\ pc = "done" => exit # "0"

\* C4: if the exchange or the parse of the response fails, the invocation
\* ends with a non-zero status as the outcome of handling the failure: the
\* diagnostic is all it printed, no exception escaped from a later step, and
\* the request was attempted exactly once.
C4_FailureEndsInvocation ==
    (server.fail # "" /\ sent # <<>> /\ pc = "done") =>
        /\ exit # "0"
        /\ exc = ""
        /\ Len(sent) = 1
        /\ out = <<"Error retrieving RPC response: " \o server.fail>>

\* The state of C5: the key of the request, and the end without any key.
C5_State ==
    /\ sent # <<>> =>
          /\ Get(req.attrib, "key")
                 = (IF argv.rpckey # None THEN argv.rpckey.v ELSE FileKey.v)
          /\ StartsWith(sent[Len(sent)],
                 "<?xml version='1.0' encoding='UTF-8'?>\n<request key=\""
                     \o (IF argv.rpckey # None THEN argv.rpckey.v ELSE FileKey.v) \o "\"")
    /\ ( /\ argv.rpckey = None
         /\ FileKey = None
         /\ argv.command # "config"
         /\ pc \notin {"parse_args", "load_config", "main"} ) =>
           Failed /\ req = NoElement /\ sent = <<>>

\* C5: the key of every request sent is the command line's --rpckey if one was
\* given, otherwise the key loaded from the configuration file; with neither,
\* a command other than 'config' ends with a non-zero status before any
\* request is built or sent; and no command other than 'config' ever changes
\* the configuration file.
C5_KeyPrecedence ==
    /\ []C5_State
    /\ [][argv.command # "config" => file' = file]_vars

\* C5's case: a request sent with the command line's key although the file holds another.
C5_Witness ==
    /\ pc = "done"
    /\ exit = "0"
    /\ Len(sent) = 1
    /\ argv.rpckey = PyStr("K2")
    /\ FileKey = PyStr("K1")
    /\ Get(req.attrib, "key") = "K2"

\* The method element each command adds per target.
Method ==
    CASE argv.command = "query" -> "lookup"
      [] argv.command = "types" -> "typelist"
      [] OTHER -> argv.command

\* The targets parse_args converted, in the order of the command line.
Targets == args[Positional(argv.command)]

\* The optional attributes the command line asks for.
OptionAttribs ==
    { [k |-> argv.words[i].dest,
       v |-> IF argv.words[i].dest = "own" THEN "1" ELSE argv.words[i].raw] :
        i \in {j \in 1..Len(argv.words) : argv.words[j].dest # Positional(argv.command)} }

\* The attributes the root carries for the settings in force.
RootAttribs ==
    {[k |-> "key", v |-> config.rpckey.v]}
        \cup (IF config.staging THEN {[k |-> "staging", v |-> "1"]} ELSE {})
        \cup (IF config.debug THEN {[k |-> "debug", v |-> "1"]} ELSE {})

Range(seq) == {seq[i] : i \in 1..Len(seq)}

Tagged(children, tag) == SelectSeq(children, LAMBDA el : el.tag = tag)

\* The position of the first child with a tag.
FirstAt(children, tag) ==
    CHOOSE i \in 1..Len(children) :
        children[i].tag = tag /\ \A j \in 1..(i - 1) : children[j].tag # tag

RECURSIVE Total(_)
Total(channels) ==
    IF Len(channels) = 0 THEN 0 ELSE Len(Head(channels).v) + Total(Tail(channels))

\* C7: for a success response with children c1..cn, the result holds exactly
\* one channel per distinct child tag, in the order the tags first occur; the
\* channel of a tag is the attribute mappings of the children with that tag in
\* document order; and the channels hold n entries in all.
C7_ChannelsGroupChildren ==
    res.t = "dict" =>
        /\ \A i, j \in 1..Len(res.v) : res.v[i].k = res.v[j].k => i = j
        /\ {res.v[i].k : i \in 1..Len(res.v)} = {el.tag : el \in Range(xmlobj.children)}
        /\ \A i, j \in 1..Len(res.v) :
              i < j => FirstAt(xmlobj.children, res.v[i].k) < FirstAt(xmlobj.children, res.v[j].k)
        /\ \A i \in 1..Len(res.v) :
              res.v[i].v = [n \in 1..Len(Tagged(xmlobj.children, res.v[i].k))
                               |-> Tagged(xmlobj.children, res.v[i].k)[n].attrib]
        /\ Total(res.v) = Len(xmlobj.children)

\* C7's case: two different results around a warning.
C7_Witness ==
    /\ res.t = "dict"
    /\ Len(xmlobj.children) = 3
    /\ xmlobj.children[1].tag = "result"
    /\ xmlobj.children[2].tag = "warning"
    /\ xmlobj.children[3].tag = "result"
    /\ xmlobj.children[1] # xmlobj.children[3]
    /\ Len(res.v) = 2
    /\ Len(res.v[1].v) = 2

\* The settings a fresh load of the file yields.
Loaded(f) == load_config(f, DefaultConfig)

\* A tri-state flag of 'config' applied to a setting.
TriState(dest, old) == IF Given(dest) THEN RawOf(dest) = "yes" ELSE old

\* The step of do_config.
C8_Step ==
    (pc = "dispatch" /\ args.command.v = "config" /\ pc' = "done") =>
        IF argv.words = <<>>
        THEN file' = file
        ELSE exit' = "0" =>
                /\ Loaded(file').staging = TriState("staging", Loaded(file).staging)
                /\ Loaded(file').debug = TriState("debug", Loaded(file).debug)
                /\ Loaded(file').rpckey =
                       (IF Given("rpckey") THEN PyStr(RawOf("rpckey")) ELSE Loaded(file).rpckey)

\* C8: a 'config' invocation with a mutation flag that writes the file leaves
\* it such that a fresh load yields staging (resp. debug) true for 'yes',
\* false for 'no' and as before without the flag, and the given key or the
\* key as before; a 'config' invocation with no mutation flag leaves the file
\* unchanged.
C8_ConfigRoundTrip == [][C8_Step]_vars

\* C8's case: 'config --staging yes' has written the file, which loads with
\* staging on and with the key and the debug setting it held.
C8_Witness ==
    /\ pc = "done"
    /\ exit = "0"
    /\ argv.command = "config"
    /\ argv.words = <<Word("staging", "yes")>>
    /\ out = <<"Configuration updated">>
    /\ Loaded(file) = [rpckey |-> PyStr("K1"), staging |-> TRUE, debug |-> TRUE]

\* The bound a range validator enforces, 0 for positiveint which has none.
Enforced(dest) ==
    CASE dest = "port" -> PortLimit
      [] dest = "type" -> TypeLimit
      [] dest = "limit" -> QueryLimit
      [] OTHER -> 0

\* C9: each range validator with enforced bound N returns v unchanged exactly
\* if 1 <= v <= N, fails with 'value must be greater than 0' for v < 1 and
\* with 'value must be less than N+1' for v > N; positiveint returns v
\* unchanged exactly if v >= 1 and fails with 'value must be greater than 0'
\* otherwise.
C9_RangeValidators ==
    \A i \in 1..Len(calls) :
        (calls[i].dest \in {"port", "type", "limit", "id"} /\ ~int(calls[i].raw).raised) =>
            LET v == int(calls[i].raw).val.v
                N == Enforced(calls[i].dest)
                inside == v >= 1 /\ (calls[i].dest = "id" \/ v <= N)
            IN  /\ ~calls[i].raised <=> inside
                /\ inside => calls[i].val = PyInt(v)
                /\ v < 1 => calls[i].msg = "value must be greater than 0"
                /\ (v >= 1 /\ ~inside) =>
                       calls[i].msg = "value must be less than " \o ToString(N + 1)

\* The result rows of the response.
ResultRowsOf(doc) == Tagged(doc.children, "result")

\* C10: for the query command and a success response whose rows carry any
\* subset of the six columns, every row is printed and the command goes on to
\* the summary line '<count> results found in <duration>', count being the
\* number of rows, and exits with status 0.
C10_MissingColumnsSkipped ==
    (argv.command = "query" /\ res.t = "dict" /\ pc = "done") =>
        /\ exit = "0"
        /\ exc = ""
        /\ out # <<>>
        /\ out[Len(out)] = ToString(Len(ResultRowsOf(xmlobj))) \o " results found in " \o Delay
        /\ ResultRowsOf(xmlobj) # <<>> => Len(out) >= 3 + Len(ResultRowsOf(xmlobj))
====
